---- MODULE Spec2Model ----
(***************************************************************************)
(* JBA::shared_ptr / SharedControlBlock (Resources/SmartPointersLib/       *)
(* SmartPointers.h) as a state machine.                                    *)
(*                                                                         *)
(* Memory is a finite set of addresses.  operator new may hand out any     *)
(* address that is not allocated, a freed one included.  Caller threads    *)
(* run the member functions statement by statement; ++ and -- on the       *)
(* plain size_t counter are a load followed by a store.                    *)
(***************************************************************************)
EXTENDS Integers, FiniteSets, Sequences

\* ---------------------------------------------------------------- bounds
NumThreads == 2
NumInsts == 3
NumBlocks == 2
NumVals == 2

\* the part of them the concurrent specification uses
NumConcInsts == 3
NumConcBlocks == 1
NumConcVals == 1
\* the part of them the specification of concurrent releases uses
NumRelInsts == 3
NumRelBlocks == 2
NumRelVals == 1
\* calls the callers of the concurrent specification start
MaxCalls == 5

\* shared_ptr objects and calls of the fair specification
NumFairInsts == 4
MaxFairCalls == 3
\* unique_ptr objects
NumUPtrs == 3
\* listener objects, their methods, Broadcast arguments, entries a list holds
NumObjs == 2
NumMeths == 2
NumArgs == 2
MaxList == 3
\* calls to the delegate that the callbacks of one Broadcast make
MaxCbCalls == 2

NULL == 0
Threads == 1..NumThreads
Insts == 1..NumInsts
Blocks == 1..NumBlocks
Vals == 1..NumVals
ConcInsts == 1..NumConcInsts
ConcBlocks == 1..NumConcBlocks
ConcVals == 1..NumConcVals
RelInsts == 1..NumRelInsts
RelBlocks == 1..NumRelBlocks
RelVals == 1..NumRelVals
\* every shared_ptr object there is; the other specifications use the first
\* NumInsts, NumConcInsts or NumRelInsts of them
FairInsts == 1..NumFairInsts
UPtrs == 1..NumUPtrs
Objs == 1..NumObjs
Meths == 1..NumMeths
Args == 1..NumArgs

VARIABLES
  blkAlloc,   \* blkAlloc[b]: address b holds a live SharedControlBlock
  ref,        \* SharedControlBlock::_ref
  cnt,        \* SharedControlBlock::_refCounter
  mutex,      \* SharedControlBlock::_mutex: 0 unlocked, else the owning thread
  valAlloc,   \* valAlloc[v]: address v holds a live T
  valDel,     \* deletes applied to the T at v since it was allocated
  valWraps,   \* control blocks that were given the T at v since it was allocated
  live,       \* live[i]: shared_ptr object i exists
  ptr,        \* shared_ptr::_ptr
  pc,         \* per thread: the statement it is at
  op,         \* per thread: the member function it runs
  self,       \* per thread: this
  other,      \* per thread: the argument instance (other), 0 when none
  lk,         \* per thread: the block whose mutex its lock_guard names
  tmp,        \* per thread: the loaded counter value
  ret,        \* per thread: what get() returned
  pre,        \* per thread: the counts seen when operator= was entered
  budget,     \* calls the callers still start, -1 when they never stop
  uLive,      \* uLive[i]: unique_ptr object i exists
  uPtr,       \* unique_ptr::_ptr
  uOut,       \* uOut[v]: the T at v is in the caller's hands (release() returned it)
  uLast,      \* the unique_ptr call that ran last, with what it saw and returned
  uAliased,   \* some reset(p) was given a p that a unique_ptr held
  variant,    \* which MulticastDelegate the delegate variables describe
  dAlive,     \* dAlive[o]: listener object o has not been destroyed
  dBuf,       \* the vector's storage: its elements, then slots it no longer owns
  dLen,       \* the vector's size()
  bcast,      \* the running Broadcast: position, cached end, argument, calls made,
              \* pairs whose entry it executed, the vector's capacity() (-1: any),
              \* whether the vector left the storage the loop walks, that storage,
              \* calls its callbacks made to the delegate
  dLast       \* the MulticastDelegate call the program made last

memVars == <<blkAlloc, ref, cnt, mutex, valAlloc, valDel, valWraps>>
instVars == <<live, ptr>>
thrVars == <<pc, op, self, other, lk, tmp, ret, pre>>
uVars == <<uLive, uPtr, uOut, uLast, uAliased>>
dVars == <<variant, dAlive, dBuf, dLen, bcast, dLast>>
extVars == <<uVars, dVars>>
spVars == <<memVars, instVars, thrVars, budget>>
vars == <<blkAlloc, ref, cnt, mutex, valAlloc, valDel, valWraps, live, ptr,
          pc, op, self, other, lk, tmp, ret, pre, budget,
          uLive, uPtr, uOut, uLast, uAliased,
          variant, dAlive, dBuf, dLen, bcast, dLast>>

NoPre == [old |-> NULL, oldCnt |-> 0, oldRefs |-> 0, oldRef |-> NULL,
          src |-> NULL, srcCnt |-> 0, blks |-> {}, vals |-> {}]

\* no unique_ptr call has run
NoCall == [op |-> "none", self |-> 0, other |-> 0, arg |-> NULL, ret |-> NULL,
           old |-> NULL, oldOther |-> NULL]
\* no MulticastDelegate call has run
NoDCall == [op |-> "none", obj |-> NULL, meth |-> NULL, was |-> 0]
\* no Broadcast is running
NoBcast == [pc |-> "idle", it |-> 0, end |-> 0, arg |-> 0, log |-> <<>>,
            ran |-> {}, cap |-> -1, moved |-> FALSE, old |-> <<>>, calls |-> 0]

\* no unique_ptr exists
UStart ==
  /\ uLive = [i \in UPtrs |-> FALSE]
  /\ uPtr = [i \in UPtrs |-> NULL]
  /\ uOut = [v \in Vals |-> FALSE]
  /\ uLast = NoCall
  /\ uAliased = FALSE

\* an empty MulticastDelegate of variant k, every listener object alive
DStart(k) ==
  /\ variant = k
  /\ dAlive = [o \in Objs |-> TRUE]
  /\ dBuf = <<>>
  /\ dLen = 0
  /\ bcast = NoBcast
  /\ dLast = NoDCall

\* no block or value is allocated, no shared_ptr exists, every thread is
\* between calls
SpStart ==
  /\ blkAlloc = [b \in Blocks |-> FALSE]
  /\ ref = [b \in Blocks |-> NULL]
  /\ cnt = [b \in Blocks |-> 0]
  /\ mutex = [b \in Blocks |-> 0]
  /\ valAlloc = [v \in Vals |-> FALSE]
  /\ valDel = [v \in Vals |-> 0]
  /\ valWraps = [v \in Vals |-> 0]
  /\ live = [i \in FairInsts |-> FALSE]
  /\ ptr = [i \in FairInsts |-> NULL]
  /\ pc = [t \in Threads |-> "idle"]
  /\ op = [t \in Threads |-> "none"]
  /\ self = [t \in Threads |-> 0]
  /\ other = [t \in Threads |-> 0]
  /\ lk = [t \in Threads |-> NULL]
  /\ tmp = [t \in Threads |-> 0]
  /\ ret = [t \in Threads |-> NULL]
  /\ pre = [t \in Threads |-> NoPre]

\* nothing is allocated, no object exists, every thread is between calls
Start == SpStart /\ UStart /\ DStart("none")

\* ------------------------------------------------------- caller discipline
\* A thread works on an object from the call to the return.
Busy(t) == pc[t] # "idle"
Writes(t, i) == Busy(t) /\ self[t] = i
Reads(t, i) == Busy(t) /\ other[t] = i
\* i may be constructed, assigned to or destroyed: nobody else touches it.
Exclusive(i) == \A u \in Threads : ~Writes(u, i) /\ ~Reads(u, i)
\* o may be read as a const argument: nobody is writing it.
Shareable(o) == live[o] /\ \A u \in Threads : ~Writes(u, o)

Holders(b) == {i \in FairInsts : live[i] /\ ptr[i] = b}
Quiescent == \A t \in Threads : pc[t] = "idle"

\* ------------------------------------------------------------ primitives
Goto(t, l) == pc' = [pc EXCEPT ![t] = l]

\* thread t is between two calls and starts one
Starts(t) ==
  /\ pc[t] = "idle"
  /\ budget # 0
  /\ budget' = IF budget > 0 THEN budget - 1 ELSE budget
  /\ UNCHANGED extVars

\* A statement that dereferences a block which is no longer allocated:
\* undefined behaviour, the thread is lost.
Crash(t) ==
  /\ Goto(t, "ub")
  /\ UNCHANGED <<memVars, instVars, op, self, other, lk, tmp, ret, pre, budget, extVars>>

\* InitCount with a defect: the block is created already counted
InitCountOne == 0 + 1

\* SharedControlBlock(T* ref = nullptr) : _ref(ref), _refCounter(0)
InitCount == 0

\* operator new: any address that holds no live object.
FreshBlocks == {b \in Blocks : ~blkAlloc[b]}
FreshVals == {v \in Vals : ~valAlloc[v]}

\* new T(...) at address v, about to be given to one control block; a block
\* that still wraps the address of an earlier T wraps the new one too
Wrappers(v) == {b \in Blocks : blkAlloc[b] /\ ref[b] = v}
NewVal(v) ==
  /\ valAlloc' = [valAlloc EXCEPT ![v] = TRUE]
  /\ valDel' = [valDel EXCEPT ![v] = 0]
  /\ valWraps' = [valWraps EXCEPT ![v] = IF Wrappers(v) = {} THEN 1 ELSE 2]

\* IncValue, DecValue, IsZero, SelfAssignGuard and GetValue with a defect:
\* the increment is missing; the decrement is missing or doubled; the value
\* is released when one instance is left; the self-assignment test is
\* missing; get() forgets the block
IncValueNone(c) == c
DecValueNone(c) == c
DecValueTwice(c) == c - 2
IsZeroEarly(c) == c <= 1
SelfAssignGuardOff(i, o) == FALSE
GetValueNull(p) == NULL

\* ++_ptr->_refCounter and --_ptr->_refCounter, the stored value.  size_t
\* arithmetic is modulo 2^64; a negative k stands for 2^64 + k, which
\* compares to zero and increments exactly as the wrapped value does.
IncValue(c) == c + 1
DecValue(c) == c - 1
\* if(_ptr->_refCounter == 0)
IsZero(c) == c = 0
\* if(this == &other)
SelfAssignGuard(i, o) == i = o
\* _ptr ? _ptr->_ref : nullptr
GetValue(p) == IF p # NULL THEN ref[p] ELSE NULL

\* LockAt with a defect: the guard does not wait for the mutex
LockAtNoWait(t, to) ==
  LET b == ptr[self[t]] IN
  /\ mutex' = [mutex EXCEPT ![b] = t]
  /\ lk' = [lk EXCEPT ![t] = b]
  /\ Goto(t, to)
  /\ UNCHANGED <<blkAlloc, ref, cnt, valAlloc, valDel, valWraps, instVars,
                 op, self, other, tmp, ret, pre, budget, extVars>>

\* std::lock_guard<std::mutex> lock(_ptr->_mutex): blocks until the mutex is
\* free, then owns it; the guard keeps a reference to that mutex.
LockAt(t, to) ==
  LET b == ptr[self[t]] IN
  /\ IF ~blkAlloc[b]
       THEN Crash(t)
       ELSE /\ mutex[b] = 0
            /\ mutex' = [mutex EXCEPT ![b] = t]
            /\ lk' = [lk EXCEPT ![t] = b]
            /\ Goto(t, to)
            /\ UNCHANGED <<blkAlloc, ref, cnt, valAlloc, valDel, valWraps, instVars,
                           op, self, other, tmp, ret, pre, budget, extVars>>

\* the load of _ptr->_refCounter
ReadCount(t, to) ==
  LET b == ptr[self[t]] IN
  /\ IF ~blkAlloc[b]
       THEN Crash(t)
       ELSE /\ tmp' = [tmp EXCEPT ![t] = cnt[b]]
            /\ Goto(t, to)
            /\ UNCHANGED <<memVars, instVars, op, self, other, lk, ret, pre, budget, extVars>>

\* the store of ++_ptr->_refCounter
WriteInc(t, to) ==
  LET b == ptr[self[t]] IN
  /\ IF ~blkAlloc[b]
       THEN Crash(t)
       ELSE /\ cnt' = [cnt EXCEPT ![b] = IncValue(tmp[t])]
            /\ tmp' = [tmp EXCEPT ![t] = 0]
            /\ Goto(t, to)
            /\ UNCHANGED <<blkAlloc, ref, mutex, valAlloc, valDel, valWraps, instVars,
                           op, self, other, lk, ret, pre, budget, extVars>>

\* the store of --_ptr->_refCounter
WriteDec(t, to) ==
  LET b == ptr[self[t]] IN
  /\ IF ~blkAlloc[b]
       THEN Crash(t)
       ELSE /\ cnt' = [cnt EXCEPT ![b] = DecValue(tmp[t])]
            /\ tmp' = [tmp EXCEPT ![t] = 0]
            /\ Goto(t, to)
            /\ UNCHANGED <<blkAlloc, ref, mutex, valAlloc, valDel, valWraps, instVars,
                           op, self, other, lk, ret, pre, budget, extVars>>

\* if(_ptr->_refCounter == 0)
CheckZero(t, toZero, toElse) ==
  LET b == ptr[self[t]] IN
  /\ IF ~blkAlloc[b]
       THEN Crash(t)
       ELSE /\ Goto(t, IF IsZero(cnt[b]) THEN toZero ELSE toElse)
            /\ UNCHANGED <<memVars, instVars, op, self, other, lk, tmp, ret, pre, budget, extVars>>

\* delete _ptr->_ref: deleting the null reference does nothing
DeleteRef(t, to) ==
  LET b == ptr[self[t]]
      v == ref[b] IN
  /\ IF ~blkAlloc[b]
       THEN Crash(t)
       ELSE /\ IF v = NULL
                 THEN UNCHANGED <<valAlloc, valDel>>
                 ELSE /\ valAlloc' = [valAlloc EXCEPT ![v] = FALSE]
                      /\ valDel' = [valDel EXCEPT ![v] = IF @ < 2 THEN @ + 1 ELSE @]
            /\ Goto(t, to)
            /\ UNCHANGED <<blkAlloc, ref, cnt, mutex, valWraps, instVars,
                           op, self, other, lk, tmp, ret, pre, budget, extVars>>

\* delete _ptr: the block's storage goes back to the allocator
DeleteBlock(t, to) ==
  LET b == ptr[self[t]] IN
  /\ IF ~blkAlloc[b]
       THEN Crash(t)
       ELSE /\ blkAlloc' = [blkAlloc EXCEPT ![b] = FALSE]
            /\ ref' = [ref EXCEPT ![b] = NULL]
            /\ cnt' = [cnt EXCEPT ![b] = 0]
            /\ mutex' = [mutex EXCEPT ![b] = 0]
            /\ Goto(t, to)
            /\ UNCHANGED <<valAlloc, valDel, valWraps, instVars,
                           op, self, other, lk, tmp, ret, pre, budget, extVars>>

\* a variant of UnlockCore: the guard's destructor leaves the mutex locked
UnlockSkipped(t, to) ==
  /\ lk' = [lk EXCEPT ![t] = NULL]
  /\ Goto(t, to)
  /\ UNCHANGED <<blkAlloc, ref, cnt, mutex, valAlloc, valDel, valWraps,
                 op, self, other, tmp, ret, pre, budget, extVars>>

\* ~lock_guard at the end of the scope: unlocks the mutex the guard names.
\* Unlocking a mutex the thread does not own is undefined: the word is
\* cleared or left as it is.
UnlockCore(t, to) ==
  LET b == lk[t] IN
  /\ \E m \in (IF ~blkAlloc[b] THEN {mutex[b]}
               ELSE IF mutex[b] = t THEN {0} ELSE {0, mutex[b]}) :
        mutex' = [mutex EXCEPT ![b] = m]
  /\ lk' = [lk EXCEPT ![t] = NULL]
  /\ Goto(t, to)
  /\ UNCHANGED <<blkAlloc, ref, cnt, valAlloc, valDel, valWraps,
                 op, self, other, tmp, ret, pre, budget, extVars>>

UnlockAt(t, to) == UnlockCore(t, to) /\ UNCHANGED instVars

\* --------------------------------------------------------- shared_ptr()
\* shared_ptr() : _ptr(nullptr) {}
DefaultCtor(t, i) ==
  /\ Starts(t) /\ ~live[i] /\ Exclusive(i)
  /\ live' = [live EXCEPT ![i] = TRUE]
  /\ ptr' = [ptr EXCEPT ![i] = NULL]
  /\ op' = [op EXCEPT ![t] = "default"]
  /\ self' = [self EXCEPT ![t] = i]
  /\ Goto(t, "done")
  /\ UNCHANGED <<memVars, other, lk, tmp, ret, pre>>

\* ------------------------------------------------------ shared_ptr(T* p)
\* _ptr = new SharedControlBlock<T>(p);
RawCtorEnter(t, i, p, b) ==
  /\ Starts(t) /\ ~live[i] /\ Exclusive(i)
  /\ b \in FreshBlocks
  /\ blkAlloc' = [blkAlloc EXCEPT ![b] = TRUE]
  /\ ref' = [ref EXCEPT ![b] = p]
  /\ cnt' = [cnt EXCEPT ![b] = InitCount]
  /\ mutex' = [mutex EXCEPT ![b] = 0]
  /\ live' = [live EXCEPT ![i] = TRUE]
  /\ ptr' = [ptr EXCEPT ![i] = b]
  /\ op' = [op EXCEPT ![t] = "raw"]
  /\ self' = [self EXCEPT ![t] = i]
  /\ Goto(t, "raw_lock")
  /\ UNCHANGED <<other, lk, tmp, ret, pre>>

\* the caller passes the null reference
RawCtorNull(t, i, b) ==
  /\ RawCtorEnter(t, i, NULL, b)
  /\ UNCHANGED <<valAlloc, valDel, valWraps>>

\* the caller passes new T(...)
RawCtorNew(t, i, v, b) ==
  /\ v \in FreshVals
  /\ RawCtorEnter(t, i, v, b)
  /\ NewVal(v)

\* the caller passes a reference that a control block already wraps
RawCtorAliased(t, i, v, b) ==
  /\ valAlloc[v]
  /\ RawCtorEnter(t, i, v, b)
  /\ valWraps' = [valWraps EXCEPT ![v] = IF @ < 2 THEN @ + 1 ELSE @]
  /\ UNCHANGED <<valAlloc, valDel>>

RawCtorLock(t) == pc[t] = "raw_lock" /\ LockAt(t, "raw_rd")
RawCtorRead(t) == pc[t] = "raw_rd" /\ ReadCount(t, "raw_wr")
RawCtorWrite(t) == pc[t] = "raw_wr" /\ WriteInc(t, "raw_unlock")
RawCtorUnlock(t) == pc[t] = "raw_unlock" /\ UnlockAt(t, "done")

\* ----------------------------- shared_ptr(SharedControlBlock<T>* sharedBlock)
\* : _ptr(sharedBlock) { if(!_ptr) return; ...
BlkCtorEnter(t, i, sb, o, name) ==
  /\ Starts(t) /\ ~live[i] /\ Exclusive(i)
  /\ live' = [live EXCEPT ![i] = TRUE]
  /\ ptr' = [ptr EXCEPT ![i] = sb]
  /\ op' = [op EXCEPT ![t] = name]
  /\ self' = [self EXCEPT ![t] = i]
  /\ other' = [other EXCEPT ![t] = o]
  /\ Goto(t, IF sb = NULL THEN "done" ELSE "blk_lock")
  /\ UNCHANGED <<lk, tmp, ret, pre>>

\* the caller passes the null reference
BlkCtorNull(t, i) ==
  /\ BlkCtorEnter(t, i, NULL, 0, "blk")
  /\ UNCHANGED memVars

\* the caller passes a block it made and that instance o keeps alive
BlkCtorShared(t, i, o) ==
  /\ o # i /\ Shareable(o) /\ ptr[o] # NULL
  /\ BlkCtorEnter(t, i, ptr[o], o, "blk")
  /\ UNCHANGED memVars

\* make_shared: new SharedControlBlock<T>(new T(args...)), then
\* shared_ptr<T>(block)
MakeShared(t, i, v, b) ==
  /\ v \in FreshVals /\ b \in FreshBlocks
  /\ NewVal(v)
  /\ blkAlloc' = [blkAlloc EXCEPT ![b] = TRUE]
  /\ ref' = [ref EXCEPT ![b] = v]
  /\ cnt' = [cnt EXCEPT ![b] = InitCount]
  /\ mutex' = [mutex EXCEPT ![b] = 0]
  /\ BlkCtorEnter(t, i, b, 0, "make")

BlkCtorLock(t) == pc[t] = "blk_lock" /\ LockAt(t, "blk_rd")
BlkCtorRead(t) == pc[t] = "blk_rd" /\ ReadCount(t, "blk_wr")
BlkCtorWrite(t) == pc[t] = "blk_wr" /\ WriteInc(t, "blk_unlock")
BlkCtorUnlock(t) == pc[t] = "blk_unlock" /\ UnlockAt(t, "done")

\* ------------------------------------------- shared_ptr(const shared_ptr&)
\* _ptr = other._ptr; if(!_ptr) return;
CopyCtorEnter(t, i, o) ==
  /\ Starts(t) /\ ~live[i] /\ Exclusive(i)
  /\ o # i /\ Shareable(o)
  /\ live' = [live EXCEPT ![i] = TRUE]
  /\ ptr' = [ptr EXCEPT ![i] = ptr[o]]
  /\ op' = [op EXCEPT ![t] = "copy"]
  /\ self' = [self EXCEPT ![t] = i]
  /\ other' = [other EXCEPT ![t] = o]
  /\ Goto(t, IF ptr[o] = NULL THEN "done" ELSE "cp_lock")
  /\ UNCHANGED <<memVars, lk, tmp, ret, pre>>

CopyCtorLock(t) == pc[t] = "cp_lock" /\ LockAt(t, "cp_rd")
CopyCtorRead(t) == pc[t] = "cp_rd" /\ ReadCount(t, "cp_wr")
CopyCtorWrite(t) == pc[t] = "cp_wr" /\ WriteInc(t, "cp_unlock")
CopyCtorUnlock(t) == pc[t] = "cp_unlock" /\ UnlockAt(t, "done")

\* ----------------------------------------------------------- ~shared_ptr()
\* the object is gone when the destructor returns
Dies(i) ==
  /\ live' = [live EXCEPT ![i] = FALSE]
  /\ ptr' = [ptr EXCEPT ![i] = NULL]

\* if(!_ptr) return;
DtorEnter(t, i) ==
  /\ Starts(t) /\ live[i] /\ Exclusive(i)
  /\ op' = [op EXCEPT ![t] = "dtor"]
  /\ self' = [self EXCEPT ![t] = i]
  /\ IF ptr[i] = NULL
       THEN Dies(i) /\ Goto(t, "done")
       ELSE UNCHANGED instVars /\ Goto(t, "dt_lock")
  /\ UNCHANGED <<memVars, other, lk, tmp, ret, pre>>

DtorLock(t) == pc[t] = "dt_lock" /\ LockAt(t, "dt_rd")
DtorRead(t) == pc[t] = "dt_rd" /\ ReadCount(t, "dt_wr")
DtorWrite(t) == pc[t] = "dt_wr" /\ WriteDec(t, "dt_chk")
DtorCheck(t) == pc[t] = "dt_chk" /\ CheckZero(t, "dt_delref", "dt_unlock")
DtorDeleteRef(t) == pc[t] = "dt_delref" /\ DeleteRef(t, "dt_delblk")
DtorDeleteBlock(t) == pc[t] = "dt_delblk" /\ DeleteBlock(t, "dt_unlock_freed")
\* the closing brace after the count was not zero
DtorUnlock(t) ==
  /\ pc[t] = "dt_unlock"
  /\ UnlockCore(t, "done")
  /\ Dies(self[t])
\* the closing brace after delete _ptr: the guard unlocks the deleted
\* block's mutex
DtorUnlockFreed(t) ==
  /\ pc[t] = "dt_unlock_freed"
  /\ UnlockCore(t, "done")
  /\ Dies(self[t])

\* ------------------------------------------ operator=(const shared_ptr&)
RefCount(b) == IF b = NULL THEN 0 ELSE cnt[b]

\* if(this == &other) return *this;  if(nullptr != _ptr) ...
AssignEnter(t, i, o) ==
  /\ Starts(t) /\ live[i] /\ Exclusive(i)
  /\ o = i \/ Shareable(o)
  /\ op' = [op EXCEPT ![t] = "assign"]
  /\ self' = [self EXCEPT ![t] = i]
  /\ other' = [other EXCEPT ![t] = o]
  /\ pre' = [pre EXCEPT ![t] =
               [old |-> ptr[i], oldCnt |-> RefCount(ptr[i]),
                oldRefs |-> Cardinality(Holders(ptr[i])),
                oldRef |-> GetValue(ptr[i]),
                src |-> ptr[o], srcCnt |-> RefCount(ptr[o]),
                blks |-> {b \in Blocks : blkAlloc[b]},
                vals |-> {v \in Vals : valAlloc[v]}]]
  /\ Goto(t, IF SelfAssignGuard(i, o) THEN "done"
             ELSE IF ptr[i] # NULL THEN "as_lock" ELSE "as_adopt")
  /\ UNCHANGED <<memVars, instVars, lk, tmp, ret>>

AssignLock(t) == pc[t] = "as_lock" /\ LockAt(t, "as_rd")
AssignRead(t) == pc[t] = "as_rd" /\ ReadCount(t, "as_wr")
AssignWrite(t) == pc[t] = "as_wr" /\ WriteDec(t, "as_chk")
AssignCheck(t) == pc[t] = "as_chk" /\ CheckZero(t, "as_delref", "as_unlock")
AssignDeleteRef(t) == pc[t] = "as_delref" /\ DeleteRef(t, "as_delblk")
AssignDeleteBlock(t) == pc[t] = "as_delblk" /\ DeleteBlock(t, "as_unlock_freed")
AssignUnlock(t) == pc[t] = "as_unlock" /\ UnlockAt(t, "as_adopt")
AssignUnlockFreed(t) == pc[t] = "as_unlock_freed" /\ UnlockAt(t, "as_adopt")

\* _ptr = other._ptr; if(_ptr) ...
AssignAdopt(t) ==
  /\ pc[t] = "as_adopt"
  /\ ptr' = [ptr EXCEPT ![self[t]] = ptr[other[t]]]
  /\ Goto(t, IF ptr[other[t]] # NULL THEN "as_lock2" ELSE "done")
  /\ UNCHANGED <<memVars, live, op, self, other, lk, tmp, ret, pre, budget, extVars>>

AssignLock2(t) == pc[t] = "as_lock2" /\ LockAt(t, "as_rd2")
AssignRead2(t) == pc[t] = "as_rd2" /\ ReadCount(t, "as_wr2")
AssignWrite2(t) == pc[t] = "as_wr2" /\ WriteInc(t, "as_unlock2")
AssignUnlock2(t) == pc[t] = "as_unlock2" /\ UnlockAt(t, "done")

\* ------------------------------------------------------------------ get()
\* T* get() const { return _ptr ? _ptr->_ref : nullptr; }
Get(t, i) ==
  /\ Starts(t) /\ live[i] /\ Exclusive(i)
  /\ op' = [op EXCEPT ![t] = "get"]
  /\ self' = [self EXCEPT ![t] = i]
  /\ ret' = [ret EXCEPT ![t] = GetValue(ptr[i])]
  /\ Goto(t, "done")
  /\ UNCHANGED <<memVars, instVars, other, lk, tmp, pre>>

\* the member function returns to its caller
Return(t) ==
  /\ pc[t] = "done"
  /\ pc' = [pc EXCEPT ![t] = "idle"]
  /\ op' = [op EXCEPT ![t] = "none"]
  /\ self' = [self EXCEPT ![t] = 0]
  /\ other' = [other EXCEPT ![t] = 0]
  /\ lk' = [lk EXCEPT ![t] = NULL]
  /\ tmp' = [tmp EXCEPT ![t] = 0]
  /\ ret' = [ret EXCEPT ![t] = NULL]
  /\ pre' = [pre EXCEPT ![t] = NoPre]
  /\ UNCHANGED <<memVars, instVars, budget, extVars>>

\* ------------------------------------------------------- specifications
\* a call a thread may start, on the objects and addresses of I, B and V
Call(t, I, B, V) ==
  \/ \E i \in I : DefaultCtor(t, i)
  \/ \E i \in I, b \in B : RawCtorNull(t, i, b)
  \/ \E i \in I, v \in V, b \in B : RawCtorNew(t, i, v, b)
  \/ \E i \in I : BlkCtorNull(t, i)
  \/ \E i \in I, o \in I : BlkCtorShared(t, i, o)
  \/ \E i \in I, v \in V, b \in B : MakeShared(t, i, v, b)
  \/ \E i \in I, o \in I : CopyCtorEnter(t, i, o)
  \/ \E i \in I : DtorEnter(t, i)
  \/ \E i \in I, o \in I : AssignEnter(t, i, o)
  \/ \E i \in I : Get(t, i)

\* the next statement of the call a thread is in
Step(t) ==
  \/ RawCtorLock(t) \/ RawCtorRead(t) \/ RawCtorWrite(t) \/ RawCtorUnlock(t)
  \/ BlkCtorLock(t) \/ BlkCtorRead(t) \/ BlkCtorWrite(t) \/ BlkCtorUnlock(t)
  \/ CopyCtorLock(t) \/ CopyCtorRead(t) \/ CopyCtorWrite(t) \/ CopyCtorUnlock(t)
  \/ DtorLock(t) \/ DtorRead(t) \/ DtorWrite(t) \/ DtorCheck(t)
  \/ DtorDeleteRef(t) \/ DtorDeleteBlock(t) \/ DtorUnlock(t) \/ DtorUnlockFreed(t)
  \/ AssignLock(t) \/ AssignRead(t) \/ AssignWrite(t) \/ AssignCheck(t)
  \/ AssignDeleteRef(t) \/ AssignDeleteBlock(t) \/ AssignUnlock(t)
  \/ AssignUnlockFreed(t) \/ AssignAdopt(t)
  \/ AssignLock2(t) \/ AssignRead2(t) \/ AssignWrite2(t) \/ AssignUnlock2(t)
  \/ Return(t)

\* Caller threads run the member functions concurrently.
Next == \E t \in Threads : Call(t, ConcInsts, ConcBlocks, ConcVals) \/ Step(t)
Init == Start /\ budget = MaxCalls
Spec == Init /\ [][Next]_vars

\* One caller thread: the calls follow one another.
NextSeq == Call(1, Insts, Blocks, Vals) \/ Step(1)
InitSeq == Start /\ budget = -1
SpecSeq == InitSeq /\ [][NextSeq]_vars

\* One caller thread that may also pass shared_ptr(T*) a reference some
\* control block already wraps.
NextAlias ==
  \/ Call(1, Insts, Blocks, Vals)
  \/ \E i \in Insts, v \in Vals, b \in Blocks : RawCtorAliased(1, i, v, b)
  \/ Step(1)
InitAlias == Start /\ budget = -1
SpecAlias == InitAlias /\ [][NextAlias]_vars

\* Caller threads that copy, assign and destroy concurrently; the calls that
\* allocate (shared_ptr(T*), make_shared) start while no other call runs.
CallRelease(t, I, B, V) ==
  \/ \E i \in I : DefaultCtor(t, i)
  \/ \E i \in I, b \in B : Quiescent /\ RawCtorNull(t, i, b)
  \/ \E i \in I, v \in V, b \in B : Quiescent /\ RawCtorNew(t, i, v, b)
  \/ \E i \in I : BlkCtorNull(t, i)
  \/ \E i \in I, o \in I : BlkCtorShared(t, i, o)
  \/ \E i \in I, v \in V, b \in B : Quiescent /\ MakeShared(t, i, v, b)
  \/ \E i \in I, o \in I : CopyCtorEnter(t, i, o)
  \/ \E i \in I : DtorEnter(t, i)
  \/ \E i \in I, o \in I : AssignEnter(t, i, o)
  \/ \E i \in I : Get(t, i)
NextRelease == \E t \in Threads : CallRelease(t, RelInsts, RelBlocks, RelVals) \/ Step(t)
InitRelease == Start /\ budget = -1
SpecRelease == InitRelease /\ [][NextRelease]_vars

\* The callers of SpecRelease under a fair scheduler: a thread that is inside
\* a call and can again and again take its next step does take it (a thread
\* waiting for a mutex gets it if it is released often enough).  The run
\* starts after  shared_ptr a(new T), a2(a), b(new T), b2(b)  have returned:
\* blocks 1 and 2 hold a value each and are referenced by two instances each.
\* The callers then start MaxFairCalls calls.
NextFair == \E t \in Threads : CallRelease(t, FairInsts, Blocks, Vals) \/ Step(t)
InitFair ==
  /\ blkAlloc = [b \in Blocks |-> b <= 2]
  /\ ref = [b \in Blocks |-> IF b <= 2 THEN b ELSE NULL]
  /\ cnt = [b \in Blocks |-> IF b <= 2 THEN IncValue(IncValue(InitCount)) ELSE 0]
  /\ mutex = [b \in Blocks |-> 0]
  /\ valAlloc = [v \in Vals |-> v <= 2]
  /\ valDel = [v \in Vals |-> 0]
  /\ valWraps = [v \in Vals |-> IF v <= 2 THEN 1 ELSE 0]
  /\ live = [i \in FairInsts |-> i <= 4]
  /\ ptr = [i \in FairInsts |-> IF i <= 2 THEN 1 ELSE IF i <= 4 THEN 2 ELSE NULL]
  /\ pc = [t \in Threads |-> "idle"]
  /\ op = [t \in Threads |-> "none"]
  /\ self = [t \in Threads |-> 0]
  /\ other = [t \in Threads |-> 0]
  /\ lk = [t \in Threads |-> NULL]
  /\ tmp = [t \in Threads |-> 0]
  /\ ret = [t \in Threads |-> NULL]
  /\ pre = [t \in Threads |-> NoPre]
  /\ budget = MaxFairCalls
  /\ UStart /\ DStart("none")
SpecFair ==
  InitFair /\ [][NextFair]_vars /\ \A t \in Threads : SF_vars(Step(t))

\* --------------------------------------------------------------- unique_ptr
\* One caller; every member function runs from its first statement to its
\* return.  The Ts the unique_ptrs manage live at the addresses Vals.
uFrame == <<blkAlloc, ref, cnt, mutex, valWraps, instVars, thrVars, budget, dVars>>

\* live unique_ptr objects whose _ptr is p
UHolders(p) == {i \in UPtrs : uLive[i] /\ uPtr[i] = p}

\* raw references a caller may pass: nullptr, a new T(...) (the argument is
\* evaluated before the call), or a reference release() handed to the caller
URawArgs == {NULL} \cup FreshVals \cup {v \in Vals : uOut[v]}
\* references that some live unique_ptr holds, as get() returns them
UHeldArgs == {v \in Vals : UHolders(v) # {}}

\* The heap after  new T  at address n (when n is a fresh address) followed
\* by  delete d  (nothing when d is null).
UAllocAfter(n, d) ==
  [v \in Vals |-> (valAlloc[v] \/ (v = n /\ n \in FreshVals)) /\ v # d]
UDelAfter(n, d) ==
  [v \in Vals |->
     LET c == IF v = n /\ n \in FreshVals THEN 0 ELSE valDel[v] IN
     IF v = d /\ c < 2 THEN c + 1 ELSE c]
\* delete d is applied to storage that holds no T
UDoubleDelete(n, d) == d # NULL /\ ~(valAlloc[d] \/ (d = n /\ n \in FreshVals))

\* A call named name of object i ran: n was allocated for it, d deleted.  A
\* delete of storage that holds no T is undefined: the program goes on or is
\* lost ("ub").
UCalled(name, i, j, a, r, n, d) ==
  /\ uLast.op # "ub"
  /\ valAlloc' = UAllocAfter(n, d)
  /\ valDel' = UDelAfter(n, d)
  /\ \E lost \in (IF UDoubleDelete(n, d) THEN {TRUE, FALSE} ELSE {FALSE}) :
       uLast' = [op |-> IF lost THEN "ub" ELSE name, self |-> i, other |-> j,
                 arg |-> a, ret |-> r,
                 old |-> uPtr[i], oldOther |-> IF j = 0 THEN NULL ELSE uPtr[j]]
  /\ UNCHANGED uFrame

\* a move that leaves the source as it was
MovedFromKept(p) == p
\* other._ptr = nullptr
MovedFrom(p) == NULL

\* a move assignment that deletes nothing
AssignDeletedNone(i, j) == NULL
\* what operator=(unique_ptr&& other) deletes:
\*   if(this != &other) { delete _ptr; ...
AssignDeleted(i, j) == IF i # j THEN uPtr[i] ELSE NULL

\* explicit unique_ptr(T* p = nullptr) : _ptr(p) {}   and   make_unique
UCtor(i, p) ==
  /\ ~uLive[i]
  /\ uLive' = [uLive EXCEPT ![i] = TRUE]
  /\ uPtr' = [uPtr EXCEPT ![i] = p]
  /\ uOut' = [v \in Vals |-> uOut[v] /\ v # p]
  /\ UCalled("ctor", i, 0, p, NULL, p, NULL)
  /\ UNCHANGED uAliased

\* ~unique_ptr() { delete _ptr; }
UDtor(i) ==
  /\ uLive[i]
  /\ uLive' = [uLive EXCEPT ![i] = FALSE]
  /\ UCalled("dtor", i, 0, NULL, NULL, NULL, uPtr[i])
  /\ UNCHANGED <<uPtr, uOut, uAliased>>

\* unique_ptr(unique_ptr&& other) : _ptr(other._ptr) { other._ptr = nullptr; }
UMoveCtor(i, j) ==
  /\ ~uLive[i] /\ uLive[j]
  /\ uLive' = [uLive EXCEPT ![i] = TRUE]
  /\ uPtr' = [uPtr EXCEPT ![i] = uPtr[j], ![j] = MovedFrom(uPtr[j])]
  /\ UCalled("movector", i, j, NULL, NULL, NULL, NULL)
  /\ UNCHANGED <<uOut, uAliased>>

\* operator=(unique_ptr&& other):
\*   if(this != &other) { delete _ptr; _ptr = other._ptr; other._ptr = nullptr; }
UMoveAssign(i, j) ==
  /\ uLive[i] /\ uLive[j]
  /\ uPtr' = IF i = j THEN uPtr
             ELSE [uPtr EXCEPT ![i] = uPtr[j], ![j] = MovedFrom(uPtr[j])]
  /\ UCalled("moveassign", i, j, NULL, NULL, NULL, AssignDeleted(i, j))
  /\ UNCHANGED <<uLive, uOut, uAliased>>

\* T* release() { T* temp = _ptr; _ptr = nullptr; return temp; }
URelease(i) ==
  /\ uLive[i]
  /\ uPtr' = [uPtr EXCEPT ![i] = NULL]
  /\ uOut' = [v \in Vals |-> uOut[v] \/ v = uPtr[i]]
  /\ UCalled("release", i, 0, NULL, uPtr[i], NULL, NULL)
  /\ UNCHANGED <<uLive, uAliased>>

\* void reset(T* ptr = nullptr) { delete _ptr; _ptr = ptr; }
UResetTo(i, p) ==
  /\ uLive[i]
  /\ uPtr' = [uPtr EXCEPT ![i] = p]
  /\ uOut' = [v \in Vals |-> uOut[v] /\ v # p]
  /\ UCalled("reset", i, 0, p, NULL, p, uPtr[i])
  /\ UNCHANGED uLive

\* reset(p) with a p no unique_ptr holds
UReset(i, p) ==
  /\ UResetTo(i, p)
  /\ UNCHANGED uAliased

\* reset(p) with a p some unique_ptr holds: a.reset(a.get()), a.reset(b.get())
UResetHeld(i, p) ==
  /\ UResetTo(i, p)
  /\ uAliased' = TRUE

UCall ==
  \/ \E i \in UPtrs, p \in URawArgs : UCtor(i, p)
  \/ \E i \in UPtrs : UDtor(i)
  \/ \E i \in UPtrs, j \in UPtrs : UMoveCtor(i, j)
  \/ \E i \in UPtrs, j \in UPtrs : UMoveAssign(i, j)
  \/ \E i \in UPtrs : URelease(i)
  \/ \E i \in UPtrs, p \in URawArgs : UReset(i, p)

\* unique_ptrs constructed from and reset to references no unique_ptr holds
NextUnique == UCall
InitUnique == SpStart /\ budget = -1 /\ UStart /\ DStart("none")
SpecUnique == InitUnique /\ [][NextUnique]_vars

\* the same callers, who may also pass reset a reference a unique_ptr holds
NextUniqueAny ==
  \/ UCall
  \/ \E i \in UPtrs, p \in UHeldArgs : UResetHeld(i, p)
InitUniqueAny == SpStart /\ budget = -1 /\ UStart /\ DStart("none")
SpecUniqueAny == InitUniqueAny /\ [][NextUniqueAny]_vars

\* ------------------------------------------------------ MulticastDelegate
\* Two classes of that name: the one of DelegateSystem.h keeps
\* shared_ptr<IDelegateBase> entries that hold a weak_ptr to the listener
\* ("weak"); the other keeps IDelegate* entries that hold a raw pointer
\* ("raw").  An entry is the listener and the method it binds; freed says
\* that the DelegateInstance a stored pointer names has been deleted.
Variants == {"weak", "raw"}
MkEntry(o, m) == [obj |-> o, meth |-> m, freed |-> FALSE]
\* the elements of the vector
VecList == SubSeq(dBuf, 1, dLen)
Pair(e) == <<e.obj, e.meth>>

\* object.lock().get(): null for an empty or expired weak_ptr
Locked(e) == IF e.obj # NULL /\ dAlive[e.obj] THEN e.obj ELSE NULL

\* a duplicate test that never matches
IsBoundNever(e, objectPtr, m) == FALSE

\* "weak" DelegateInstance::IsBound
\*   return (locked.get() == objectPtr && incomingMethod == method);
WIsBoundEntry(e, objectPtr, m) == Locked(e) = objectPtr /\ m = e.meth

\* "raw" DelegateInstance::IsBound
\*   if (nullptr == obj || nullptr == method) return false;
\*   return (_Object == obj && _Method == method);
RIsBoundEntry(e, obj, m) ==
  IF obj = NULL \/ m = NULL THEN FALSE ELSE e.obj = obj /\ e.meth = m

\* MulticastDelegate::IsBound: some entry is bound to (object, m)
WIsBound(l, object, m) == \E k \in 1..Len(l) : WIsBoundEntry(l[k], object, m)
RIsBound(l, obj, m) == \E k \in 1..Len(l) : RIsBoundEntry(l[k], obj, m)

\* Add: if(!IsBound(object, method)) push_back(...)
WAddResult(l, object, m) ==
  IF WIsBound(l, object, m) THEN l ELSE Append(l, MkEntry(object, m))
RAddResult(l, obj, m) ==
  IF RIsBound(l, obj, m) THEN l ELSE Append(l, MkEntry(obj, m))

\* l without its k-th element
DropAt(l, k) == [j \in 1..(Len(l) - 1) |-> IF j < k THEN l[j] ELSE l[j + 1]]

\* Remove that erases every element from the first match on
WRemoveTail(l, object, m) ==
  LET hits == {k \in 1..Len(l) : WIsBoundEntry(l[k], object, m)} IN
  IF hits = {} THEN l
  ELSE SubSeq(l, 1, (CHOOSE k \in hits : \A j \in hits : k <= j) - 1)

\* "weak" Remove: std::remove_if over IsBound, then erase(it, end())
WRemoveResult(l, object, m) ==
  LET Keep(e) == ~WIsBoundEntry(e, object, m) IN SelectSeq(l, Keep)

\* "raw" Remove: std::find_if for the first bound entry; delete *it; erase(it)
RRemoveResult(l, obj, m) ==
  LET hits == {k \in 1..Len(l) : RIsBoundEntry(l[k], obj, m)} IN
  IF hits = {} THEN l
  ELSE DropAt(l, CHOOSE k \in hits : \A j \in hits : k <= j)

\* a caller outside any Broadcast replaces the vector's elements
SetList(l) ==
  /\ dBuf' = l
  /\ dLen' = Len(l)

\* the call that ran: its name, its arguments and the size() of the vector
\* when it was made; it touches the delegate only
Called(name, o, m) ==
  /\ dLast' = [op |-> name, obj |-> o, meth |-> m, was |-> dLen]
  /\ UNCHANGED <<spVars, uVars>>

\* a call made by the program, not from inside a callback
TopLevel == bcast.pc = "idle"

\* objects a caller can pass as shared_ptr<ClassType>: null or alive
SharedArgs == {NULL} \cup {o \in Objs : dAlive[o]}

\* "weak" Add(object, method)
WAdd(o, m) ==
  /\ variant = "weak" /\ TopLevel
  /\ o \in SharedArgs
  /\ Len(WAddResult(VecList, o, m)) <= MaxList
  /\ SetList(WAddResult(VecList, o, m))
  /\ Called("add", o, m)
  /\ UNCHANGED <<variant, dAlive, bcast>>

\* "weak" Remove(object, method)
WRemove(o, m) ==
  /\ variant = "weak" /\ TopLevel
  /\ o \in SharedArgs
  /\ SetList(WRemoveResult(VecList, o, m))
  /\ Called("remove", o, m)
  /\ UNCHANGED <<variant, dAlive, bcast>>

\* "weak" RemoveAll(): vDelegates.clear()
WRemoveAll ==
  /\ variant = "weak" /\ TopLevel
  /\ SetList(<<>>)
  /\ Called("removeall", NULL, NULL)
  /\ UNCHANGED <<variant, dAlive, bcast>>

\* the last shared_ptr to listener o goes away: weak_ptrs to it expire
WExpire(o) ==
  /\ variant = "weak" /\ TopLevel
  /\ dAlive[o]
  /\ dAlive' = [dAlive EXCEPT ![o] = FALSE]
  /\ Called("expire", o, NULL)
  /\ UNCHANGED <<variant, dBuf, dLen, bcast>>

\* "raw" Add(obj, ptr)
RAdd(o, m) ==
  /\ variant = "raw" /\ TopLevel
  /\ Len(RAddResult(VecList, o, m)) <= MaxList
  /\ SetList(RAddResult(VecList, o, m))
  /\ Called("add", o, m)
  /\ UNCHANGED <<variant, dAlive, bcast>>

\* "raw" Remove(obj, ptr)
RRemove(o, m) ==
  /\ variant = "raw" /\ TopLevel
  /\ SetList(RRemoveResult(VecList, o, m))
  /\ Called("remove", o, m)
  /\ UNCHANGED <<variant, dAlive, bcast>>

\* "raw" operator+=(callback): Add(callback._Object, callback._Method)
PlusEqResult(l, o, m) == RAddResult(l, o, m)
\* "raw" operator-=(callback): Remove(callback._Object, callback._Method)
MinusEqResult(l, o, m) == RRemoveResult(l, o, m)

\* delegate += Callback(o, m)
RPlusEq(o, m) ==
  /\ variant = "raw" /\ TopLevel
  /\ Len(PlusEqResult(VecList, o, m)) <= MaxList
  /\ SetList(PlusEqResult(VecList, o, m))
  /\ Called("pluseq", o, m)
  /\ UNCHANGED <<variant, dAlive, bcast>>

\* delegate -= Callback(o, m)
RMinusEq(o, m) ==
  /\ variant = "raw" /\ TopLevel
  /\ SetList(MinusEqResult(VecList, o, m))
  /\ Called("minuseq", o, m)
  /\ UNCHANGED <<variant, dAlive, bcast>>

\* ----------------------------------------------------------- Broadcast
\* for(delegate : vDelegates): begin() and end() are taken once
BcastBegin(a) ==
  /\ variant \in Variants /\ TopLevel
  /\ bcast' = [NoBcast EXCEPT !.pc = "loop", !.it = 1, !.end = dLen, !.arg = a]
  /\ Called("broadcast", NULL, NULL)
  /\ UNCHANGED <<variant, dAlive, dBuf, dLen>>

\* the loop is at an element the vector owns
AtElement ==
  /\ bcast.pc = "loop"
  /\ bcast.it # bcast.end + 1
  /\ ~bcast.moved
  /\ bcast.it <= dLen
  /\ ~dBuf[bcast.it].freed

\* ++it
Advance == bcast' = [bcast EXCEPT !.pc = "loop", !.it = @ + 1]
\* (object->*method)(args...) is entered
Invoke(e) ==
  bcast' = [bcast EXCEPT !.pc = "call",
                         !.log = Append(@, <<e.obj, e.meth, bcast.arg>>),
                         !.ran = @ \cup {Pair(e)}]

\* an Execute that invokes null and expired listeners too
SkipsNever(e) == FALSE

\* "weak": delegate->IsExpired(), and in Execute a lock() that fails
WSkips(e) == IF e.obj = NULL THEN TRUE ELSE ~dAlive[e.obj]
\* "raw" Execute: if(!_Object || !_Method) return;
RSkips(e) == e.obj = NULL \/ e.meth = NULL

\* "weak": the entry's listener has expired
WBcastSkip ==
  /\ variant = "weak" /\ AtElement
  /\ WSkips(dBuf[bcast.it])
  /\ Advance
  /\ UNCHANGED <<variant, dAlive, dBuf, dLen, dLast, spVars, uVars>>

\* "weak": if(!delegate->IsExpired()) delegate->Execute(args...)
WBcastExecute ==
  /\ variant = "weak" /\ AtElement
  /\ ~WSkips(dBuf[bcast.it])
  /\ Invoke(dBuf[bcast.it])
  /\ UNCHANGED <<variant, dAlive, dBuf, dLen, dLast, spVars, uVars>>

\* "raw": Execute returns at once
RBcastSkip ==
  /\ variant = "raw" /\ AtElement
  /\ RSkips(dBuf[bcast.it])
  /\ Advance
  /\ UNCHANGED <<variant, dAlive, dBuf, dLen, dLast, spVars, uVars>>

\* "raw": delegate->Execute(args...)
RBcastExecute ==
  /\ variant = "raw" /\ AtElement
  /\ ~RSkips(dBuf[bcast.it])
  /\ Invoke(dBuf[bcast.it])
  /\ UNCHANGED <<variant, dAlive, dBuf, dLen, dLast, spVars, uVars>>

\* the listener whose method is running
Running == bcast.log[Len(bcast.log)][1]

\* "weak": the running method drops the last shared_ptr to another listener
CbExpire(o) ==
  /\ variant = "weak" /\ bcast.pc = "call"
  /\ o # Running /\ dAlive[o]
  /\ dAlive' = [dAlive EXCEPT ![o] = FALSE]
  /\ UNCHANGED <<variant, dBuf, dLen, bcast, dLast, spVars, uVars>>

\* the method returns
BcastCallReturn ==
  /\ bcast.pc = "call"
  /\ Advance
  /\ UNCHANGED <<variant, dAlive, dBuf, dLen, dLast, spVars, uVars>>

\* it == end: the loop is over
BcastEnd ==
  /\ bcast.pc = "loop"
  /\ bcast.it = bcast.end + 1
  /\ bcast' = [bcast EXCEPT !.pc = "done"]
  /\ UNCHANGED <<variant, dAlive, dBuf, dLen, dLast, spVars, uVars>>

\* Broadcast returns
BcastReturn ==
  /\ bcast.pc = "done"
  /\ bcast' = NoBcast
  /\ UNCHANGED <<variant, dAlive, dBuf, dLen, dLast, spVars, uVars>>

\* The program calls the delegate; listeners do not call it back.
DCall ==
  \/ \E o \in Objs \cup {NULL}, m \in Meths : WAdd(o, m)
  \/ \E o \in Objs \cup {NULL}, m \in Meths : WRemove(o, m)
  \/ WRemoveAll
  \/ \E o \in Objs : WExpire(o)
  \/ \E o \in Objs \cup {NULL}, m \in Meths \cup {NULL} : RAdd(o, m)
  \/ \E o \in Objs \cup {NULL}, m \in Meths \cup {NULL} : RRemove(o, m)
  \/ \E o \in Objs \cup {NULL}, m \in Meths \cup {NULL} : RPlusEq(o, m)
  \/ \E o \in Objs \cup {NULL}, m \in Meths \cup {NULL} : RMinusEq(o, m)
  \/ \E a \in Args : BcastBegin(a)
DStep ==
  \/ WBcastSkip \/ WBcastExecute \/ RBcastSkip \/ RBcastExecute
  \/ \E o \in Objs : CbExpire(o)
  \/ BcastCallReturn \/ BcastEnd \/ BcastReturn
NextDelegate == DCall \/ DStep
InitDelegate ==
  SpStart /\ budget = -1 /\ UStart /\ \E k \in Variants : DStart(k)
SpecDelegate == InitDelegate /\ [][NextDelegate]_vars

\* ------------------------------------------- calls made from inside a callback
\* The method Broadcast is running calls the delegate it was called from.
\* The loop keeps the begin() and end() it took; what it then reads is what
\* the storage holds at the positions it walks.

\* a slot whose shared_ptr was moved from and destroyed: it holds nullptr
DeadSlot == [obj |-> NULL, meth |-> NULL, freed |-> TRUE]
\* the slots of the storage past the vector's end
Stale == SubSeq(dBuf, dLen + 1, Len(dBuf))
\* the pointers to the DelegateInstance of (o, m) in buf now dangle
MarkFreed(buf, o, m) ==
  [k \in 1..Len(buf) |->
     IF Pair(buf[k]) = <<o, m>> THEN [buf[k] EXCEPT !.freed = TRUE] ELSE buf[k]]

\* "weak" Remove, slot by slot: remove_if moves the kept elements down and
\* leaves nullptr where it took them from; erase destroys the tail, whose
\* other slots keep the address of a DelegateInstance that is now deleted.
WRemoveSlots(l, object, m) ==
  LET kept == WRemoveResult(l, object, m) IN
  [k \in 1..Len(l) |->
     IF k <= Len(kept) THEN kept[k]
     ELSE IF WIsBoundEntry(l[k], object, m) THEN [l[k] EXCEPT !.freed = TRUE]
     ELSE DeadSlot]

\* "raw" Remove, slot by slot: delete *it, erase(it) copies the later
\* pointers one slot down; the last slot keeps the pointer it held.
RRemoveSlots(l, obj, m) ==
  LET kept == RRemoveResult(l, obj, m) IN
  IF Len(kept) = Len(l) THEN l
  ELSE LET last == l[Len(l)]
           tail == IF RIsBoundEntry(last, obj, m) THEN [last EXCEPT !.freed = TRUE]
                   ELSE last
       IN MarkFreed(kept, obj, m) \o <<tail>>

\* "weak" RemoveAll: clear() destroys every element; the slots keep the
\* addresses of the deleted DelegateInstances
ClearSlots(l) == [k \in 1..Len(l) |-> [l[k] EXCEPT !.freed = TRUE]]

\* the storage the loop's iterators point into, and the slot they are at
LoopBuf == IF bcast.moved THEN bcast.old ELSE dBuf
LoopSlot == LoopBuf[bcast.it]
\* the loop dereferences an iterator that no longer names an element
AtStale == bcast.pc = "loop" /\ bcast.it # bcast.end + 1 /\ ~AtElement
\* Execute on what the slot holds
Skips(e) == IF variant = "weak" THEN WSkips(e) ELSE RSkips(e)

\* a callback is running and calls the delegate
InCallback == bcast.pc = "call" /\ bcast.calls < MaxCbCalls

\* the callback calls Add(o, m) and IsBound finds the pair
CbAddBound(o, m) ==
  /\ InCallback
  /\ IF variant = "weak" THEN dAlive[o] /\ WIsBound(VecList, o, m)
                         ELSE RIsBound(VecList, o, m)
  /\ bcast' = [bcast EXCEPT !.calls = @ + 1]
  /\ UNCHANGED <<variant, dAlive, dBuf, dLen, dLast, spVars, uVars>>

\* the callback calls Add(o, m); push_back writes the slot after the last
\* element: capacity() is larger than size().  A capacity not yet known is
\* any c that held the list Broadcast started on.
CbAddInPlace(o, m, c) ==
  /\ InCallback /\ dLen < MaxList
  /\ IF variant = "weak" THEN dAlive[o] /\ ~WIsBound(VecList, o, m)
                         ELSE ~RIsBound(VecList, o, m)
  /\ dLen < c /\ bcast.end <= c
  /\ dBuf' = VecList \o <<MkEntry(o, m)>> \o SubSeq(dBuf, dLen + 2, Len(dBuf))
  /\ dLen' = dLen + 1
  /\ bcast' = [bcast EXCEPT !.cap = c, !.calls = @ + 1]
  /\ UNCHANGED <<variant, dAlive, dLast, spVars, uVars>>

\* the callback calls Add(o, m) when size() == capacity(): push_back moves
\* the elements to new storage of capacity c and frees the old one, which the
\* loop's iterators keep pointing into.  The old slots hold the pointers
\* ("raw") or moved-from shared_ptrs ("weak").
CbAddRealloc(o, m, c) ==
  /\ InCallback /\ dLen < MaxList
  /\ IF variant = "weak" THEN dAlive[o] /\ ~WIsBound(VecList, o, m)
                         ELSE ~RIsBound(VecList, o, m)
  /\ bcast.cap = dLen \/ (bcast.cap = -1 /\ dLen = bcast.end)
  /\ c > dLen
  /\ dBuf' = VecList \o <<MkEntry(o, m)>>
  /\ dLen' = dLen + 1
  /\ bcast' = [bcast EXCEPT
                 !.cap = c, !.moved = TRUE, !.calls = @ + 1,
                 !.old = IF bcast.moved THEN @
                         ELSE IF variant = "weak"
                                THEN [k \in 1..Len(dBuf) |-> DeadSlot]
                                ELSE dBuf]
  /\ UNCHANGED <<variant, dAlive, dLast, spVars, uVars>>

\* the callback calls Remove(o, m)
CbRemove(o, m) ==
  /\ InCallback
  /\ variant = "weak" => dAlive[o]
  /\ dBuf' = (IF variant = "weak" THEN WRemoveSlots(VecList, o, m)
                                  ELSE RRemoveSlots(VecList, o, m))
             \o (IF variant = "weak" THEN Stale ELSE MarkFreed(Stale, o, m))
  /\ dLen' = Len(IF variant = "weak" THEN WRemoveResult(VecList, o, m)
                                     ELSE RRemoveResult(VecList, o, m))
  /\ bcast' = [bcast EXCEPT
                 !.ran = @ \ {<<o, m>>}, !.calls = @ + 1,
                 !.old = IF variant = "weak" THEN @ ELSE MarkFreed(@, o, m)]
  /\ UNCHANGED <<variant, dAlive, dLast, spVars, uVars>>

\* the callback calls RemoveAll() ("weak" only)
CbRemoveAll ==
  /\ InCallback /\ variant = "weak"
  /\ dBuf' = ClearSlots(VecList) \o Stale
  /\ dLen' = 0
  /\ bcast' = [bcast EXCEPT !.ran = {}, !.calls = @ + 1]
  /\ UNCHANGED <<variant, dAlive, dLast, spVars, uVars>>

\* Dereferencing an iterator that names no element is undefined.  The
\* program is lost, ...
BcastStaleLost ==
  /\ AtStale
  /\ bcast' = [bcast EXCEPT !.pc = "ub"]
  /\ UNCHANGED <<variant, dAlive, dBuf, dLen, dLast, spVars, uVars>>

\* ... or Execute runs on what the slot still holds and returns at once, ...
BcastStaleSkip ==
  /\ AtStale
  /\ LoopSlot # DeadSlot /\ Skips(LoopSlot)
  /\ Advance
  /\ UNCHANGED <<variant, dAlive, dBuf, dLen, dLast, spVars, uVars>>

\* ... or invokes the listener method the slot still names.
BcastStaleExecute ==
  /\ AtStale
  /\ LoopSlot # DeadSlot /\ ~Skips(LoopSlot)
  /\ Invoke(LoopSlot)
  /\ UNCHANGED <<variant, dAlive, dBuf, dLen, dLast, spVars, uVars>>

\* capacities a vector of up to MaxList elements can have
Caps == 0..MaxList

DReenter ==
  \/ \E o \in Objs, m \in Meths : CbAddBound(o, m)
  \/ \E o \in Objs, m \in Meths, c \in Caps :
       (bcast.cap \in {-1, c}) /\ CbAddInPlace(o, m, c)
  \/ \E o \in Objs, m \in Meths, c \in Caps : CbAddRealloc(o, m, c)
  \/ \E o \in Objs, m \in Meths : CbRemove(o, m)
  \/ CbRemoveAll
  \/ BcastStaleLost \/ BcastStaleSkip \/ BcastStaleExecute

\* The program fills the list and broadcasts; the listeners' methods call
\* the delegate.
DFill ==
  \/ \E o \in Objs \cup {NULL}, m \in Meths : WAdd(o, m)
  \/ \E o \in Objs \cup {NULL}, m \in Meths \cup {NULL} : RAdd(o, m)
  \/ \E a \in Args : BcastBegin(a)
NextReentrant == DFill \/ DStep \/ DReenter
InitReentrant ==
  SpStart /\ budget = -1 /\ UStart /\ \E k \in Variants : DStart(k)
SpecReentrant == InitReentrant /\ [][NextReentrant]_vars

\* ----------------------------------------------------------------- claims
\* statements after the decrement of the destructor and of operator=: the
\* instance has given up its count, _ptr still holds the old address
PostDecPcs == {"dt_chk", "dt_delref", "dt_delblk", "dt_unlock", "dt_unlock_freed",
               "as_chk", "as_delref", "as_delblk", "as_unlock", "as_unlock_freed",
               "as_adopt"}
\* statements after the zero-check found the count at zero
ZeroPcs == {"dt_delref", "dt_delblk", "dt_unlock_freed",
            "as_delref", "as_delblk", "as_unlock_freed"}
\* the statement after delete _ptr->_ref
JustDeletedPcs == {"dt_delblk", "as_delblk"}
\* statements between the lock and the unlock that read or write the count
CountPcs == {"raw_rd", "raw_wr", "blk_rd", "blk_wr", "cp_rd", "cp_wr",
             "dt_rd", "dt_wr", "dt_chk", "as_rd", "as_wr", "as_chk",
             "as_rd2", "as_wr2"}
Released(i) == \E t \in Threads : self[t] = i /\ pc[t] \in PostDecPcs
\* the instances that reference block b
Refs(b) == {i \in Holders(b) : ~Released(i)}
AllocBlocks == {b \in Blocks : blkAlloc[b]}
AllocVals == {v \in Vals : valAlloc[v]}

\* C1: over the calls of one caller, the value of a block is deleted at most
\* once, only by the call that removes the last instance referencing the
\* block, never while an instance references it, and it has been deleted
\* once no instance is left.
SingleRelease ==
  /\ \A v \in Vals : valDel[v] <= 1
  /\ \A t \in Threads :
       pc[t] \in ZeroPcs => Holders(ptr[self[t]]) \subseteq {self[t]}
  /\ \A i \in Insts :
       (live[i] /\ ptr[i] # NULL /\ ~Released(i))
         => /\ blkAlloc[ptr[i]]
            /\ ref[ptr[i]] # NULL
                 => valAlloc[ref[ptr[i]]] /\ valDel[ref[ptr[i]]] = 0
  /\ Quiescent =>
       \A v \in Vals : valAlloc[v] => \E i \in Insts : live[i] /\ GetValue(ptr[i]) = v

\* C1 witness: a destructor has deleted the value of the block it was the
\* last to reference, while another block is shared by two instances.
SingleReleaseReached ==
  /\ pc[1] = "dt_delblk"
  /\ \E v \in Vals : valDel[v] = 1
  /\ \E b \in Blocks : blkAlloc[b] /\ Cardinality(Holders(b)) = 2 /\ cnt[b] = 2

\* C2: in every quiescent state the count of every live control block equals
\* the number of live shared_ptr instances whose _ptr is that block.
CountInvariant ==
  Quiescent => \A b \in Blocks : blkAlloc[b] => cnt[b] = Cardinality(Holders(b))

ValueDeletedOnce ==
  \A v \in Vals :
    /\ valDel[v] <= 1
    /\ \A i \in Insts :
         (live[i] /\ ~Released(i) /\ GetValue(ptr[i]) = v) => valAlloc[v]

\* C4 amended: a value that was given to one control block only is deleted at
\* most once, not while an instance references it, and has been deleted once
\* no instance references it.
ValueDeletedOnceUnaliased ==
  \A v \in Vals :
    valWraps[v] <= 1 =>
      /\ valDel[v] <= 1
      /\ \A i \in Insts :
           (live[i] /\ ~Released(i) /\ GetValue(ptr[i]) = v) => valAlloc[v]
      /\ \A t \in Threads :
           (pc[t] \in JustDeletedPcs /\ ref[ptr[self[t]]] = v)
             => \A i \in Insts : (live[i] /\ i # self[t]) => GetValue(ptr[i]) # v
      /\ (Quiescent /\ valAlloc[v]) => \E i \in Insts : live[i] /\ GetValue(ptr[i]) = v

\* C4 witness: operator= has deleted a value that one block only wrapped.
ValueDeletedOnceReached ==
  /\ pc[1] = "as_delblk"
  /\ ref[ptr[self[1]]] # NULL
  /\ valWraps[ref[ptr[self[1]]]] = 1 /\ valDel[ref[ptr[self[1]]]] = 1

\* C5: when a = b returns (a and b distinct), a and b hold the same block;
\* b's block gained one count; a's former block lost one count, and it and
\* its value are released exactly when a was its last instance; nothing else
\* is released, and when both held the same block its count is unchanged.
AssignEffect ==
  \A t \in Threads :
    (pc[t] = "done" /\ op[t] = "assign" /\ self[t] # other[t]) =>
      LET p == pre[t]
          gone == p.old # NULL /\ p.old # p.src /\ p.oldRefs = 1
      IN /\ ptr[self[t]] = ptr[other[t]] /\ ptr[other[t]] = p.src
         /\ (p.src # NULL /\ p.src # p.old) => cnt[p.src] = p.srcCnt + 1
         /\ (p.old # NULL /\ p.old # p.src /\ ~gone) => cnt[p.old] = p.oldCnt - 1
         /\ (p.old # NULL /\ p.old = p.src) => cnt[p.old] = p.oldCnt
         /\ AllocBlocks = p.blks \ (IF gone THEN {p.old} ELSE {})
         /\ AllocVals = p.vals \ (IF gone THEN {p.oldRef} ELSE {})

\* C5 witness: a = b has returned, a was the last instance of its block and
\* b holds another block.
AssignEffectReached ==
  /\ pc[1] = "done" /\ op[1] = "assign" /\ self[1] # other[1]
  /\ pre[1].old # NULL /\ pre[1].oldRefs = 1 /\ pre[1].oldRef # NULL
  /\ pre[1].src # NULL /\ pre[1].src # pre[1].old

\* C6: a = a returns at once and changes no block, no value and no instance.
SelfAssignNoop ==
  [][\A t \in Threads :
       (pc[t] = "idle" /\ op'[t] = "assign" /\ self'[t] = other'[t])
         => (pc'[t] = "done" /\ UNCHANGED <<memVars, instVars>>)]_vars

\* C6 witness: a = a has returned for an instance that alone holds its block.
SelfAssignReached ==
  /\ pc[1] = "done" /\ op[1] = "assign" /\ self[1] = other[1]
  /\ ptr[self[1]] # NULL /\ cnt[ptr[self[1]]] = 1
  /\ GetValue(ptr[self[1]]) # NULL

\* the state a constructor leaves for instance i: a block of its own whose
\* count is 1, wrapping a live value nothing else wraps
OwnsFreshValue(i) ==
  LET b == ptr[i] IN
  /\ b # NULL /\ blkAlloc[b] /\ cnt[b] = 1 /\ mutex[b] = 0
  /\ Holders(b) = {i}
  /\ ref[b] # NULL /\ valAlloc[ref[b]] /\ valDel[ref[b]] = 0
  /\ Wrappers(ref[b]) = {b}

\* C7: make_shared creates the block with count 0 and returns an instance
\* whose get() is the new value and whose block has count 1; construction
\* from a raw reference to a new value returns in the same state.
MakeSharedAsRaw ==
  \A t \in Threads :
    /\ (op[t] = "make" /\ pc[t] = "blk_lock") => cnt[ptr[self[t]]] = 0
    /\ (op[t] = "make" /\ pc[t] = "done") => OwnsFreshValue(self[t])
    /\ (op[t] = "raw" /\ pc[t] = "done" /\ GetValue(ptr[self[t]]) # NULL)
         => OwnsFreshValue(self[t])

\* C7 witness: make_shared has returned.
MakeSharedReached ==
  pc[1] = "done" /\ op[1] = "make" /\ cnt[ptr[self[1]]] = 1

\* C8: get() returns the null reference for an instance without a block and
\* the wrapped value otherwise, and changes no block, value or instance.
GetIsPure ==
  [][\A t \in Threads :
       (pc[t] = "idle" /\ op'[t] = "get") =>
         /\ UNCHANGED <<memVars, instVars>>
         /\ ret'[t] = IF ptr[self'[t]] = NULL THEN NULL ELSE ref[ptr[self'[t]]]]_vars

\* C8 witness: get() has returned the value of a block while a
\* default-constructed instance exists.
GetReached ==
  /\ pc[1] = "done" /\ op[1] = "get" /\ ret[1] # NULL
  /\ \E i \in Insts : live[i] /\ ptr[i] = NULL

\* C9: shared_ptr(T*) allocates a block that was not allocated, wraps the
\* reference (null or not) in it, and returns with count 1 and the new
\* instance as the block's only instance; get() of a wrapped null reference
\* is null, and a destructor that ends with its instance the only one of a
\* block has released the block.
RawCtorFresh ==
  [][\A t \in Threads :
       /\ (pc[t] = "idle" /\ op'[t] = "raw") =>
            LET b == ptr'[self'[t]] IN
            /\ b # NULL /\ ~blkAlloc[b] /\ blkAlloc'[b]
            /\ ref'[b] = NULL \/ (valAlloc'[ref'[b]] /\ ~valAlloc[ref'[b]])
            /\ \A i \in Insts : (live[i] /\ i # self'[t]) => ptr[i] # b
       /\ (op[t] = "raw" /\ pc[t] # "done" /\ pc'[t] = "done") =>
            LET b == ptr'[self[t]] IN
            /\ blkAlloc'[b] /\ cnt'[b] = 1 /\ mutex'[b] = 0
            /\ {i \in Insts : live'[i] /\ ptr'[i] = b} = {self[t]}
            /\ ref'[b] = ref[b]
       /\ (op[t] = "raw" /\ pc[t] = "done" /\ ref[ptr[self[t]]] = NULL) =>
            GetValue(ptr[self[t]]) = NULL
       /\ (op[t] = "dtor" /\ pc[t] # "done" /\ pc'[t] = "done") =>
            LET b == ptr[self[t]] IN
            (b # NULL /\ Holders(b) = {self[t]}) => ~blkAlloc'[b]]_vars

\* C9 witness: shared_ptr(T*) has returned for the null reference.
RawCtorReached ==
  /\ pc[1] = "done" /\ op[1] = "raw"
  /\ ref[ptr[self[1]]] = NULL /\ cnt[ptr[self[1]]] = 1

\* C10: a thread at a load, store or zero-check of a block's count owns that
\* block's mutex, and no two threads are at such a statement of one block.
MutexSerialises ==
  /\ \A t \in Threads : pc[t] \in CountPcs => mutex[ptr[self[t]]] = t
  /\ \A t \in Threads, u \in Threads :
       (t # u /\ pc[t] \in CountPcs /\ pc[u] \in CountPcs)
         => ptr[self[t]] # ptr[self[u]]

\* statements at which ~lock_guard is about to unlock the mutex it names
UnlockPcs == {"raw_unlock", "blk_unlock", "cp_unlock", "dt_unlock",
              "dt_unlock_freed", "as_unlock", "as_unlock_freed", "as_unlock2"}
\* statements about to lock, read, write or delete through _ptr
DerefPcs == {"raw_lock", "raw_rd", "raw_wr", "blk_lock", "blk_rd", "blk_wr",
             "cp_lock", "cp_rd", "cp_wr", "dt_lock", "dt_rd", "dt_wr", "dt_chk",
             "dt_delref", "dt_delblk", "as_lock", "as_rd", "as_wr", "as_chk",
             "as_delref", "as_delblk", "as_lock2", "as_rd2", "as_wr2"}

\* C13: every statement that is about to lock, read, write or delete through
\* _ptr finds the block allocated; every statement about to unlock finds the
\* block of the mutex allocated; no call has touched a deleted block; and when
\* the block is about to be deleted its value has been deleted already.
NoUseAfterDelete ==
  \A t \in Threads :
    /\ pc[t] \in DerefPcs => blkAlloc[ptr[self[t]]]
    /\ pc[t] \in UnlockPcs => blkAlloc[lk[t]]
    /\ pc[t] # "ub"
    /\ pc[t] \in JustDeletedPcs =>
         (ref[ptr[self[t]]] # NULL => ~valAlloc[ref[ptr[self[t]]]])

\* ------------------------------------------- claims of the delegate lists
\* a step of one of the calls that edit the list from outside a Broadcast
EditStep(names) == bcast.pc = "idle" /\ bcast'.pc = "idle" /\ dLast'.op \in names
\* the list holds the pair
InList(o, m) == \E k \in 1..dLen : Pair(dBuf[k]) = <<o, m>>
\* pairs the variant's IsBound can match: any in "weak"; in "raw" those
\* with an object and a method
Bindable(o, m) == variant = "weak" \/ (o # NULL /\ m # NULL)

\* C11 as claimed: the list never holds two entries for one (object, method)
\* pair, the null object included, and Add of a pair the list holds leaves
\* the list as it is.
AddPreventsDuplicates ==
  [][/\ \A j \in 1..dLen', k \in 1..dLen' :
          j # k => Pair(dBuf'[j]) # Pair(dBuf'[k])
     /\ (EditStep({"add"}) /\ InList(dLast'.obj, dLast'.meth))
          => (dBuf' = dBuf /\ dLen' = dLen)]_vars

\* C11 amended: the same for the pairs IsBound can match (every object in the
\* weak-reference variant, non-null object and method in the raw-pointer one).
AddPreventsBoundDuplicates ==
  [][/\ \A j \in 1..dLen', k \in 1..dLen' :
          (j # k /\ Bindable(dBuf'[j].obj, dBuf'[j].meth))
            => Pair(dBuf'[j]) # Pair(dBuf'[k])
     /\ (EditStep({"add"}) /\ InList(dLast'.obj, dLast'.meth)
           /\ Bindable(dLast'.obj, dLast'.meth))
          => (dBuf' = dBuf /\ dLen' = dLen)]_vars

\* C11 witness: Add has run for a pair that an earlier Add had put first in
\* a list of three entries.
AddDuplicateReached ==
  /\ dLast.op = "add" /\ dLast.obj # NULL /\ dLast.meth # NULL
  /\ dLen = 3 /\ Pair(dBuf[1]) = <<dLast.obj, dLast.meth>>

\* the calls the list's entries would produce, in list order
Triples == [k \in 1..dLen |-> <<dBuf[k].obj, dBuf[k].meth, bcast.arg>>]
\* what Broadcast has invoked so far
Invoked == {bcast.log[k] : k \in 1..Len(bcast.log)}
\* the entry's listener can be called: it is not null and has not expired
Callable(e) == e.obj # NULL /\ e.meth # NULL /\ dAlive[e.obj]

\* C12: a step of Broadcast that invokes a method invokes the method of the
\* entry the loop is at, with Broadcast's arguments, and that entry's listener
\* is alive; a step that passes an entry without invoking it finds the
\* listener null or expired; no step of Broadcast changes the list; and when
\* the loop is over, the calls made are those of entries of the list, in list
\* order, none twice, with one for every entry whose listener is alive.
BroadcastInvokesAll ==
  [][/\ (bcast.pc = "loop" /\ bcast'.pc = "call") =>
          /\ Callable(dBuf[bcast.it])
          /\ bcast'.log = Append(bcast.log, Triples[bcast.it])
     /\ (bcast.pc = "loop" /\ bcast'.pc = "loop") =>
          /\ ~Callable(dBuf[bcast.it])
          /\ bcast'.log = bcast.log
     /\ (bcast.pc # "idle" \/ bcast'.pc # "idle") => (dBuf' = dBuf /\ dLen' = dLen)
     /\ bcast'.pc # "idle" => (bcast'.arg = bcast.arg \/ bcast.pc = "idle")
     /\ bcast.pc = "done" =>
          /\ LET Made(x) == x \in Invoked IN bcast.log = SelectSeq(Triples, Made)
          /\ Cardinality(Invoked) = Len(bcast.log)
          /\ \A k \in 1..dLen : Callable(dBuf[k]) => Triples[k] \in Invoked]_vars

\* C12 witness: a Broadcast over three entries has ended with two calls made.
BroadcastReached ==
  bcast.pc = "done" /\ dLen = 3 /\ Len(bcast.log) = 2

\* the list without the entries for the pair, the others in their order
WithoutPair(l, o, m) ==
  LET Other(e) == Pair(e) # <<o, m>> IN SelectSeq(l, Other)
\* the method a Broadcast step has just entered belongs to an entry of the list
InvokedFromList ==
  (bcast.pc = "loop" /\ bcast'.pc = "call") =>
    InList(bcast'.log[Len(bcast'.log)][1], bcast'.log[Len(bcast'.log)][2])

\* C15 as claimed: Remove(obj, m) and operator-= leave the list without the
\* pair and with every other entry in its previous order (so the list is
\* unchanged when the pair was not in it), for every obj and m; Broadcast
\* invokes entries of the list only; operator+= and operator-= give the lists
\* Add and Remove give.
RemoveRemovesPair ==
  [][/\ EditStep({"remove", "minuseq"}) =>
          VecList' = WithoutPair(VecList, dLast'.obj, dLast'.meth)
     /\ InvokedFromList
     /\ EditStep({"pluseq"}) => VecList' = RAddResult(VecList, dLast'.obj, dLast'.meth)
     /\ EditStep({"minuseq"}) =>
          VecList' = RRemoveResult(VecList, dLast'.obj, dLast'.meth)]_vars

\* C15 amended: the same for Remove and operator-= of a pair whose object
\* and method are not null.
RemoveRemovesBoundPair ==
  [][/\ (EditStep({"remove", "minuseq"}) /\ dLast'.obj # NULL /\ dLast'.meth # NULL) =>
          VecList' = WithoutPair(VecList, dLast'.obj, dLast'.meth)
     /\ InvokedFromList
     /\ EditStep({"pluseq"}) => VecList' = RAddResult(VecList, dLast'.obj, dLast'.meth)
     /\ EditStep({"minuseq"}) =>
          VecList' = RRemoveResult(VecList, dLast'.obj, dLast'.meth)]_vars

\* C15 witness: Remove of a pair with an object and a method has taken the
\* first of three entries out of the list; the two others follow.
RemoveMiddleReached ==
  /\ dLast.op \in {"remove", "minuseq"} /\ dLast.obj # NULL /\ dLast.meth # NULL
  /\ dLast.was = 3 /\ dLen = 2
  /\ Pair(dBuf[1]) # Pair(dBuf[2])

DeleteEffects ==
  LET c == uLast'
      deleting == \/ c.op \in {"dtor", "reset"}
                  \/ (c.op = "moveassign" /\ c.self # c.other)
      gone == IF deleting THEN c.old ELSE NULL
  IN
  /\ \A v \in Vals : valDel'[v] <= 1
  /\ \A v \in Vals :
       IF v = gone THEN valAlloc[v] /\ ~valAlloc'[v] /\ valDel'[v] = valDel[v] + 1
       ELSE valAlloc[v] => (valAlloc'[v] /\ valDel'[v] = valDel[v])
  /\ \A v \in Vals : uOut[v] => (valAlloc'[v] /\ valDel'[v] = valDel[v])
  /\ c.op = "release" =>
       /\ c.ret = c.old /\ uPtr'[c.self] = NULL
       /\ c.ret # NULL => (uOut'[c.ret] /\ valAlloc'[c.ret])
  /\ \A v \in Vals : (valAlloc'[v] /\ ~uOut'[v]) => \E i \in UPtrs : uLive'[i] /\ uPtr'[i] = v

\* C17 as claimed: the effects hold whatever reference reset is given.
DeletedOnceAnyReset == [][DeleteEffects]_vars

\* C17 amended: the effects hold as long as reset was given only null or
\* references that no unique_ptr held.
DeletedOnceUnheldReset == [][~uAliased' => DeleteEffects]_vars

\* C17 witness: release has handed back a value that is still alive, after a
\* reset of another value, and reset was never given a held reference.
ReleaseAfterResetReached ==
  /\ ~uAliased
  /\ uLast.op = "release" /\ uLast.ret # NULL
  /\ uOut[uLast.ret] /\ valAlloc[uLast.ret]
  /\ \E v \in Vals : v # uLast.ret /\ valDel[v] = 1 /\ ~valAlloc[v]

\* ------------------------------------------- claims of reentrant callbacks
\* C18: every step in which the Broadcast loop dereferences its iterator
\* reads a position of the list as it is now, in the storage the vector now
\* uses, whose DelegateInstance has not been deleted, and does not invoke an
\* entry this Broadcast has invoked before.
ReentrantBroadcastSafe ==
  [][(bcast.pc = "loop" /\ bcast'.pc \in {"loop", "call", "ub"}) =>
       /\ ~bcast.moved
       /\ bcast.it <= dLen
       /\ ~dBuf[bcast.it].freed
       /\ bcast'.pc = "call" => Pair(dBuf[bcast.it]) \notin bcast.ran]_vars

====
